---- MODULE Spec2Model ----
(***************************************************************************)
(* Request-handling core of the work-time tracking bot:                    *)
(*   - RateLimiterMiddleware (src/app/middlewares/rate_limiter.py)         *)
(*   - ErrorHandlerMiddleware (src/app/middlewares/error_handler.py)       *)
(* and of the utilities started beside it:                                 *)
(*   - BackupManager.restore_from_backup (src/app/utils/backup.py)         *)
(*   - NotificationManager (src/app/utils/notifications.py)                *)
(*   - HealthCheck (src/app/utils/health_check.py)                         *)
(*   - TimeZoneSync (src/app/utils/timezone_sync.py)                       *)
(* Each call is one atomic action; what the call did (result, handler      *)
(* invocations, messages sent) is kept in observation variables that       *)
(* describe the call made by the latest step.  Each component has its own  *)
(* specification: Spec, SpecGuard, SpecChain, SpecTasks, SpecBackup,       *)
(* SpecNotifications, SpecHealth, SpecTimezone.                            *)
(***************************************************************************)
EXTENDS Integers, Sequences, FiniteSets, TLC

\* ------------------------------------------------------------------ bounds
MaxStored == 4
MaxTime == 61

\* user ids (event.from_user.id)
Users == {1, 2}

\* clock advances between requests (seconds): the instants 0, 30, 60 and 61,
\* so that a recorded instant can be 0, 30, 31, exactly 60, or 61 seconds old
Steps == {30, 61}

\* ------------------------------------------------------------------ policy
\* self.limits: command -> <<limit, period>>
limits ==
  [add_record |-> <<5, 60>>,
   workplaces |-> <<10, 60>>,
   reports    |-> <<3, 60>>,
   settings   |-> <<5, 60>>,
   default    |-> <<20, 60>>]

\* self.limits.get(command, self.limits['default'])
Policy(command) ==
  IF command \in DOMAIN limits THEN limits[command] ELSE limits["default"]

\* ------------------------------------------------------------------ events
\* message texts: a command text starts with '/', any other text does not;
\* the messages sent here are the command texts "/reports" (a command with a
\* policy of its own) and "/foo" (a command without one)
Words == {"reports", "foo"}
Texts == [slash : {TRUE}, word : Words]
NoCommand == [slash |-> FALSE, word |-> ""]

\* message.get_command(): the command with its leading '/', or None
get_command(text) == IF text.slash THEN text ELSE NoCommand

\* RateLimiterMiddleware._get_command: the command without '/', or 'default'
GetCommandName(text) ==
  IF get_command(text) # NoCommand THEN get_command(text).word ELSE "default"

Commands == {GetCommandName(x) : x \in Texts}

EventKinds == {"Message", "CallbackQuery"}

\* what the wrapped handler does when it is awaited
\* (a raised exception carries its message and the length of its formatted trace)
HandlerValues == {"Success", "None"}
Returns == [raises : {FALSE}, value : HandlerValues, trace : {0}]
Faults == [raises : {TRUE}, value : {"bad input"}, trace : {120, 4500}]
Handlers == Returns \cup {[raises |-> TRUE, value |-> "bad input", trace |-> 120]}
GuardHandlers == Returns \cup Faults

\* ------------------------------------------------------------ rate limiter
\* values a slot of last_requests can hold: the float 0.0 or a list of instants
FloatZero == [tag |-> "float", items |-> <<>>]
ListOf(items) == [tag |-> "list", items |-> items]

\* defaultdict(lambda: defaultdict(float)): a slot never assigned reads as 0.0
DefaultRequests == [u \in Users |-> [c \in Commands |-> FloatZero]]

\* (mutant: the table is keyed by the user alone)
StoreForUser(lr, user_id, command, value) ==
  [lr EXCEPT ![user_id] = [c \in DOMAIN lr[user_id] |-> value]]

\* (mutant: the table is keyed by the command alone)
StoreForCommand(lr, user_id, command, value) ==
  [u \in DOMAIN lr |-> [lr[u] EXCEPT ![command] = value]]

\* self.last_requests[user_id][command] = value
StoreRequests(lr, user_id, command, value) ==
  [lr EXCEPT ![user_id][command] = value]

\* (mutant: nothing is ever pruned)
PruneOldNothing(items, current_time, period) == items

\* (mutant: an instant exactly one period old still counts)
PruneOldInclusive(items, current_time, period) ==
  SelectSeq(items, LAMBDA t : current_time - t <= period)

\* [t for t in user_requests if current_time - t < period]
PruneOld(items, current_time, period) ==
  SelectSeq(items, LAMBDA t : current_time - t < period)

\* (mutant: the comparison is off by one)
LimitReachedOffByOne(items, limit) == Len(items) > limit

\* len(self.last_requests[user_id][command]) >= limit
LimitReached(items, limit) == Len(items) >= limit

\* (mutant: a rejected request is recorded like an admitted one)
RejectedRecorded(kept, current_time) == Append(kept, current_time)

\* `return False` comes before the append: the pruned list stays as it is
Rejected(kept, current_time) == kept

\* lines 49-60 of _check_limit on the value of one slot: the value stored in
\* the slot afterwards and the verdict
\* ("True" admitted, "False" rejected, "TypeError" raised: a float is not iterable)
CheckRequests(user_requests, limit, period, current_time) ==
  IF user_requests.tag # "list"
  THEN [value |-> user_requests, verdict |-> "TypeError"]
  ELSE LET kept == PruneOld(user_requests.items, current_time, period)
       IN IF LimitReached(kept, limit)
          THEN [value |-> ListOf(Rejected(kept, current_time)), verdict |-> "False"]
          ELSE [value |-> ListOf(Append(kept, current_time)), verdict |-> "True"]

\* _check_limit: the new last_requests and the verdict
CheckLimit(lr, user_id, command, current_time) ==
  LET limit == Policy(command)[1]
      period == Policy(command)[2]
      r == CheckRequests(lr[user_id][command], limit, period, current_time)
  IN IF r.verdict = "TypeError"
     THEN [lr |-> lr, verdict |-> "TypeError"]
     ELSE [lr |-> StoreRequests(lr, user_id, command, r.value),
           verdict |-> r.verdict]

\* ---------------------------------------------------------------- messages
\* a send attempt: what the text carries and whether the transport took it
Message(kind, limit, period, detail, trace, delivered) ==
  [kind |-> kind, limit |-> limit, period |-> period, detail |-> detail,
   trace |-> trace, delivered |-> delivered]

\* "Доступно {limit} запросов за {period} секунд."
WarningReply(limit, period, delivered) ==
  Message("warning", limit, period, "", 0, delivered)

\* what one middleware call did
Effect(outcome, value, handler_calls, log_calls, user_msgs, admin_msgs) ==
  [outcome |-> outcome, value |-> value, handler_calls |-> handler_calls,
   log_calls |-> log_calls, user_msgs |-> user_msgs, admin_msgs |-> admin_msgs]

\* return await handler(event, data)
AwaitHandler(h) ==
  IF h.raises
  THEN Effect("raise", h.value, 1, 0, <<>>, <<>>)
  ELSE Effect("return", h.value, 1, 0, <<>>, <<>>)

\* (mutant: the warning names the default policy, not the command's)
RejectRequestDefaultPolicy(command, replyFails) ==
  IF replyFails
  THEN Effect("raise", "ReplyError", 0, 0,
              <<WarningReply(limits["default"][1], limits["default"][2], FALSE)>>, <<>>)
  ELSE Effect("return", "True", 0, 0,
              <<WarningReply(limits["default"][1], limits["default"][2], TRUE)>>, <<>>)

\* the rejection branch of RateLimiterMiddleware.__call__: reply, return True
RejectRequest(command, replyFails) ==
  LET limit == Policy(command)[1]
      period == Policy(command)[2]
  IN IF replyFails
     THEN Effect("raise", "ReplyError", 0, 0,
                 <<WarningReply(limit, period, FALSE)>>, <<>>)
     ELSE Effect("return", "True", 0, 0,
                 <<WarningReply(limit, period, TRUE)>>, <<>>)

\* RateLimiterMiddleware.__call__: new last_requests, verdict, effect
RateLimiterCall(lr, kind, user_id, text, current_time, h, replyFails) ==
  IF kind # "Message"
  THEN [lr |-> lr, verdict |-> "n/a", effect |-> AwaitHandler(h)]
  ELSE LET command == GetCommandName(text)
           chk == CheckLimit(lr, user_id, command, current_time)
       IN [lr |-> chk.lr,
           verdict |-> chk.verdict,
           effect |->
             CASE chk.verdict = "TypeError" ->
                    Effect("raise", "TypeError", 0, 0, <<>>, <<>>)
               [] chk.verdict = "False" -> RejectRequest(command, replyFails)
               [] chk.verdict = "True" -> AwaitHandler(h)]

\* ----------------------------------------------------------- error handler
\* the environment of one ErrorHandlerMiddleware call
\*   admin_id: os.getenv("ADMIN_ID") is set;  bot: data.get("bot") is not None
Envs == [admin_id : BOOLEAN, bot : BOOLEAN]
NoEnv == [admin_id |-> FALSE, bot |-> FALSE]

\* which awaited reporting steps raise: the first log_error, event.reply,
\* bot.send_message, the log_error in the handler of a failed send_message
Fails == [log : BOOLEAN, reply : BOOLEAN, send : BOOLEAN, log2 : BOOLEAN]
NoFails == [log |-> FALSE, reply |-> FALSE, send |-> FALSE, log2 |-> FALSE]

\* the apology: f"Описание ошибки: {str(e)}", no trace
ApologyReply(h, delivered) == Message("apology", 0, 0, h.value, 0, delivered)

\* (mutant: the whole trace goes into the admin text)
AdminTextWholeTrace(h, delivered) ==
  Message("admin", 0, 0, h.value, h.trace, delivered)

\* the admin text: code(traceback.format_exc()[:3000])
AdminText(h, delivered) ==
  Message("admin", 0, 0, h.value, IF h.trace < 3000 THEN h.trace ELSE 3000, delivered)

\* (mutant: the wrapper answers True whatever the handler returned)
NormalResultSwallowed(h) == Effect("return", "True", 1, 0, <<>>, <<>>)

\* try: return await handler(event, data)
NormalResult(h) == Effect("return", h.value, 1, 0, <<>>, <<>>)

\* (mutant: the except block ends by raising the fault again)
HandledResultReraised(log_calls, user_msgs, admin_msgs) ==
  Effect("raise", "bad input", 1, log_calls, user_msgs, admin_msgs)

\* the last line of the except block: return True
HandledResult(log_calls, user_msgs, admin_msgs) ==
  Effect("return", "True", 1, log_calls, user_msgs, admin_msgs)

\* an exception raised by a statement of the except block leaves __call__
Escapes(error, log_calls, user_msgs, admin_msgs) ==
  Effect("raise", error, 1, log_calls, user_msgs, admin_msgs)

\* (mutant: bot.send_message is awaited outside any try)
NotifyAdminUnguarded(h, env, fails, user_msgs) ==
  IF ~(env.admin_id /\ env.bot)
  THEN HandledResult(1, user_msgs, <<>>)
  ELSE IF ~fails.send
  THEN HandledResult(1, user_msgs, <<AdminText(h, TRUE)>>)
  ELSE Escapes("SendError", 1, user_msgs, <<AdminText(h, FALSE)>>)

\* the notification of the administrator (inside `if isinstance(event, Message)`)
NotifyAdmin(h, env, fails, user_msgs) ==
  IF ~(env.admin_id /\ env.bot)
  THEN HandledResult(1, user_msgs, <<>>)
  ELSE IF ~fails.send
  THEN HandledResult(1, user_msgs, <<AdminText(h, TRUE)>>)
  ELSE IF fails.log2
  THEN Escapes("LogError", 2, user_msgs, <<AdminText(h, FALSE)>>)
  ELSE HandledResult(2, user_msgs, <<AdminText(h, FALSE)>>)

\* ErrorHandlerMiddleware.__call__
Guard(kind, h, env, fails) ==
  IF ~h.raises THEN NormalResult(h)
  ELSE IF fails.log THEN Escapes("LogError", 1, <<>>, <<>>)
  ELSE IF kind # "Message" THEN HandledResult(1, <<>>, <<>>)
  ELSE IF fails.reply THEN Escapes("ReplyError", 1, <<ApologyReply(h, FALSE)>>, <<>>)
  ELSE NotifyAdmin(h, env, fails, <<ApologyReply(h, TRUE)>>)

\* --------------------------------------------------------------- the chain
\* what the wrapper sees of the callable it awaits: whether it raised, with
\* which message, and how long the trace of that exception is
AsHandler(effect, trace) ==
  [raises |-> effect.outcome = "raise", value |-> effect.value, trace |-> trace]

\* what an outer middleware and the callable it awaited did together
Composed(inner, outer) ==
  Effect(outer.outcome, outer.value, inner.handler_calls,
         inner.log_calls + outer.log_calls,
         inner.user_msgs \o outer.user_msgs,
         inner.admin_msgs \o outer.admin_msgs)

\* (mutant: RateLimiterMiddleware encloses ErrorHandlerMiddleware)
ChainLimiterOutside(lr, kind, user_id, text, current_time, h, replyFails, env, fails) ==
  LET g == Guard(kind, h, env, fails)
      r == RateLimiterCall(lr, kind, user_id, text, current_time,
                           AsHandler(g, h.trace), replyFails)
  IN [lr |-> r.lr, verdict |-> r.verdict,
      effect |-> IF r.effect.handler_calls = 1
                 THEN Composed(g, r.effect)
                 ELSE r.effect]

\* ErrorHandlerMiddleware, set up before RateLimiterMiddleware, encloses it:
\* the callable it awaits is the rate limiter's __call__ around the handler
Chain(lr, kind, user_id, text, current_time, h, replyFails, env, fails) ==
  LET r == RateLimiterCall(lr, kind, user_id, text, current_time, h, replyFails)
      inner == AsHandler(r.effect, IF r.effect.handler_calls = 1 THEN h.trace ELSE 120)
  IN [lr |-> r.lr, verdict |-> r.verdict,
      effect |-> Composed(r.effect, Guard(kind, inner, env, fails))]

\* ------------------------------------------------------------------ backup
\* a backup path: its name without a final ".gz", and whether it ends in ".gz"
Paths == [name : {"a.sql", "b.sql"}, gz : BOOLEAN]

\* Path(str(backup_file)[:-3])
Uncompressed(path) == [path EXCEPT !.gz = FALSE]

\* process.returncode of psql
ReturnCodes == {0, 1}

\* what _decompress_file does with the archive
Decompressions == {"ok", "raises"}

Restored(call_made, path, decompress, returncode, result) ==
  [call_made |-> call_made, path |-> path, decompress |-> decompress,
   returncode |-> returncode, result |-> result]

NoRestore == Restored(FALSE, [name |-> "a.sql", gz |-> FALSE], "ok", 0, "None")

\* the finally clause: the file `backup_file` names by then is unlinked if
\* is_compressed is true; is_compressed is a local assigned at line 147 only
Finally(fs, bound, is_compressed, backup_file, result) ==
  IF ~bound THEN [files |-> fs, result |-> "UnboundLocalError"]
  ELSE IF ~is_compressed THEN [files |-> fs, result |-> result]
  ELSE IF backup_file \notin fs THEN [files |-> fs, result |-> "FileNotFoundError"]
  ELSE [files |-> fs \ {backup_file}, result |-> result]

\* BackupManager.restore_from_backup
RestoreFromBackup(fs, env, backup_file, decompress, returncode) ==
  IF backup_file \notin fs
  THEN Finally(fs, FALSE, FALSE, backup_file, "False")
  ELSE IF ~env
  THEN Finally(fs, FALSE, FALSE, backup_file, "False")
  ELSE IF backup_file.gz /\ decompress = "raises"
  THEN Finally(fs \cup {Uncompressed(backup_file)}, TRUE, TRUE, backup_file, "False")
  ELSE LET run_on == IF backup_file.gz THEN Uncompressed(backup_file) ELSE backup_file
       IN Finally(fs \cup {run_on}, TRUE, backup_file.gz, run_on,
                  IF returncode = 0 THEN "True" ELSE "False")

\* ----------------------------------------------------------- notifications
MaxNotifications == 2
FirstHour == 21
MaxClock == 34

\* NotificationManager.default_settings (hours of the day)
default_settings == [quiet_hours_start |-> 23, quiet_hours_end |-> 8]

Priorities == {"high", "normal"}

\* the notification built by add_notification: scheduled_time or datetime.now()
Notification(id, priority, scheduled_time) ==
  [id |-> id, priority |-> priority, scheduled_time |-> scheduled_time]

\* is_quiet_hours: current_hour >= quiet_hours_start or < quiet_hours_end
IsQuietHours(t) ==
  LET current_hour == t % 24
  IN \/ current_hour >= default_settings.quiet_hours_start
     \/ current_hour < default_settings.quiet_hours_end

\* (mutant: the timedelta of one day is not added)
NextMorningSameDay(t) == (t \div 24) * 24 + default_settings.quiet_hours_end

\* datetime.now().replace(hour=quiet_hours_end, minute=0, second=0)
\*   + timedelta(days=1)
NextMorning(t) == (t \div 24) * 24 + default_settings.quiet_hours_end + 24

\* (mutant: a notification counts as due one hour early)
DueEarly(notification, t) == notification.scheduled_time <= t + 1

\* notification["scheduled_time"] <= datetime.now()
Due(notification, t) == notification.scheduled_time <= t

Sent(id, delivered) == [id |-> id, delivered |-> delivered]

\* process_notifications: the while loop over the head of the queue.
\*   lookup_fails: ids whose User.get raises;  send_fails: ids whose
\*   bot.send_message raises;  sends: the send_message calls made so far
RECURSIVE ProcessNotifications(_, _, _, _, _)
ProcessNotifications(queue, t, lookup_fails, send_fails, sends) ==
  IF queue = <<>> THEN [queue |-> queue, sends |-> sends]
  ELSE LET notification == Head(queue)
       IN IF ~Due(notification, t)
          THEN [queue |-> queue, sends |-> sends]
          ELSE IF notification.id \in lookup_fails
          THEN ProcessNotifications(Tail(queue), t, lookup_fails, send_fails, sends)
          ELSE IF notification.priority # "high" /\ IsQuietHours(t)
          THEN ProcessNotifications(
                 <<[notification EXCEPT !.scheduled_time = NextMorning(t)]>>
                   \o Tail(queue),
                 t, lookup_fails, send_fails, sends)
          ELSE ProcessNotifications(
                 Tail(queue), t, lookup_fails, send_fails,
                 Append(sends, Sent(notification.id,
                                    notification.id \notin send_fails)))

NoProcess == [made |-> FALSE, lookup_fails |-> {}, send_fails |-> {}, sends |-> <<>>]

\* ------------------------------------------------------------ health check
MaxChecks == 5
alert_threshold == 3

\* the keys of `results` in HealthCheck.check
Components == {"database", "telegram_api", "scheduler", "system", "timezone_sync"}

\* all(component["status"] == "healthy" for component in results.values())
ComponentsHealthy(unhealthy) == unhealthy = {}

\* (mutant: a healthy check leaves the count as it is)
ErrorCountKept(count, components_healthy) ==
  IF components_healthy THEN count ELSE count + 1

\* self.error_count = 0  /  self.error_count += 1
ErrorCountAfter(count, components_healthy) ==
  IF components_healthy THEN 0 ELSE count + 1

\* if self.error_count >= self.alert_threshold: await self.notify_admin(status)
AlertDue(count) == count >= alert_threshold

NoCheck == [made |-> FALSE, unhealthy |-> {}, notified |-> FALSE]

\* ----------------------------------------------------------- timezone sync
MaxHours == 48
sync_interval == 24

\* zone names: user.timezone and the zoneName the API answers with
Zones == {"Europe/Moscow", "UTC"}

\* get_timezone_info: a dict, None, or an exception
Lookups == {"ok", "none", "raises"}

\* datetime.now() - last_sync_time < self.sync_interval
RecentlySynced(ls, user, t) ==
  user \in DOMAIN ls /\ t - ls[user] < sync_interval

\* self.last_sync[user.telegram_id] = datetime.now()
SetLastSync(ls, user, t) ==
  [x \in DOMAIN ls \cup {user} |-> IF x = user THEN t ELSE ls[x]]

\* (mutant: the time of the attempt is recorded whatever its outcome)
LastSyncAlways(ls, user, t, lookup, save_ok) == SetLastSync(ls, user, t)

\* last_sync is assigned after get_timezone_info answered and user.save()
\* returned
LastSyncAfter(ls, user, t, lookup, save_ok) ==
  IF lookup = "ok" /\ save_ok THEN SetLastSync(ls, user, t) ELSE ls

\* TimeZoneSync.sync_user_timezone
SyncUserTimezone(ls, tz, user, t, lookup, zone, save_ok) ==
  IF RecentlySynced(ls, user, t)
  THEN [last_sync |-> ls, timezone |-> tz, looked_up |-> FALSE, result |-> "True"]
  ELSE [last_sync |-> LastSyncAfter(ls, user, t, lookup, save_ok),
        timezone |-> IF lookup = "ok" THEN [tz EXCEPT ![user] = zone] ELSE tz,
        looked_up |-> TRUE,
        result |-> IF lookup = "ok" /\ save_ok THEN "True" ELSE "False"]

NoSync == [made |-> FALSE, user |-> 0, lookup |-> "none", save_ok |-> FALSE,
           looked_up |-> FALSE, result |-> "None"]

\* ------------------------------------------------------------------- state
VARIABLES
  last_requests,  \* RateLimiterMiddleware.last_requests
  now,            \* time.time()
  admitted,       \* per key: instants of the admitted requests still inside
                  \* the trailing interval (now - period, now]
  rejected_at,    \* per key: the instant of its latest rejected request if no
                  \* request of the key was admitted since, else -1
  call,           \* the middleware call made by the latest step (NoCall if
                  \* that step was not a call): its inputs and verdict
  done,           \* what that call did
  tasks,          \* per event-processing task: where it is suspended
  files,          \* the backup files that exist on disk
  db_env,         \* DB_NAME, DB_USER, DB_PASSWORD and DB_HOST are all set
  restored,       \* the restore_from_backup call made by the latest step
                  \* (NoRestore if that step was not one) and its outcome
  notification_queue,  \* NotificationManager.notification_queue
  clock,          \* datetime.now(), in hours
  created,        \* number of notifications made by add_notification
  processed,      \* the process_notifications call made by the latest step
                  \* (NoProcess if that step was not one): what it sent
  is_healthy,     \* HealthCheck.is_healthy
  error_count,    \* HealthCheck.error_count
  history,        \* per HealthCheck.check made so far: whether every
                  \* component reported healthy
  health,         \* the check made by the latest step and whether
                  \* start_monitoring called notify_admin after it
  last_sync,      \* TimeZoneSync.last_sync
  timezone,       \* per user: user.timezone of the User object
  tz_now,         \* datetime.now() of the synchroniser, in hours
  synced,         \* the sync_user_timezone call made by the latest step
  configured,     \* limits[command] of a command configured by the deployment
  requests,       \* per user: last_requests[user][command] of that command
  answer,         \* the _check_limit call of that command made by the latest
                  \* step (NoAnswer if that step was not one)
  is_running,     \* NotificationManager.is_running
  loops,          \* per task that calls NotificationManager.start(): where
                  \* it is suspended and the notification it took from the
                  \* head of the queue
  attempts,       \* per notification: the bot.send_message calls made for it
                  \* by those tasks
  fsm_state,      \* the user's state in the FSM storage (RecordForm)
  data,           \* the user's data in the FSM storage
  records,        \* the Records made by Record.create, in order
  today,          \* datetime.now().date(), as a day number
  workplaces,     \* the names of the user's Workplace rows
  handled         \* the message handled by the latest step (NoMessage if
                  \* that step handled none)

middlewareVars == <<last_requests, now, admitted, rejected_at, call, done>>
backupVars == <<files, db_env, restored>>
notifVars == <<notification_queue, clock, created, processed>>
healthVars == <<is_healthy, error_count, history, health>>
tzVars == <<last_sync, timezone, tz_now, synced>>
policyVars == <<configured, requests, answer>>

\* the state of the parts specified further below
loopVars == <<is_running, loops, attempts>>
dialogVars == <<fsm_state, data, records, today, workplaces, handled>>
restVars == <<policyVars, loopVars, dialogVars>>

\* the state outside the two middlewares
others == <<tasks, backupVars, notifVars, healthVars, tzVars, restVars>>

vars == <<last_requests, now, admitted, rejected_at, call, done, others>>

\* the FSM data of a user outside a dialog (-1: key not set)
NoData == [workplace_id |-> -1, start_time |-> -1, end_time |-> -1]

\* no message handled
NoMessage == [made |-> FALSE, text |-> "", reply_fails |-> FALSE]

\* the tasks that may call NotificationManager.start()
LoopIds == {1, 2}

\* a task that is not inside start()
\*   pc: "idle", "returned" (start() returned at once), or the await at which
\*       the task is suspended: "lookup" (User.get), "send" (send_message),
\*       "sleep" (asyncio.sleep)
\*   id, priority: the notification read from notification_queue[0]
\*   awaits: the number of awaits the task has completed, modulo 2
\*   raised: the await completed last raised an exception
IdleLoop ==
  [pc |-> "idle", id |-> 0, priority |-> "none", awaits |-> 0, raised |-> FALSE]

\* no _check_limit call of the configured command
NoAnswer == [made |-> FALSE, user |-> 0, verdict |-> "n/a"]

\* a call that awaits no handler has no handler outcome
NoHandler == [raises |-> FALSE, value |-> "None", trace |-> 0]

\* an input that the call does not read is drawn from a single value
HandlersRead(awaited) == IF awaited THEN Handlers ELSE {NoHandler}
FailsRead(sent) == IF sent THEN BOOLEAN ELSE {FALSE}
AnyText == [slash |-> TRUE, word |-> "reports"]

NoCall ==
  [mw |-> "none", kind |-> "Message", user |-> 0, command |-> "",
   verdict |-> "n/a", handler |-> NoHandler, env |-> NoEnv, fails |-> NoFails]

NoEffect == Effect("return", "None", 0, 0, <<>>, <<>>)

\* the tasks the dispatcher runs at the same time, one per update
TaskIds == {1, 2, 3, 4}
IdleTask == [pc |-> "idle", user |-> 0, command |-> ""]

Init ==
  /\ last_requests = DefaultRequests
  /\ now = 0
  /\ admitted = [u \in Users |-> [c \in Commands |-> <<>>]]
  /\ rejected_at = [u \in Users |-> [c \in Commands |-> -1]]
  /\ call = NoCall
  /\ done = NoEffect
  /\ tasks = [t \in TaskIds |-> IdleTask]
  /\ files = {}
  /\ db_env = FALSE
  /\ restored = NoRestore
  /\ notification_queue = <<>>
  /\ clock = FirstHour
  /\ created = 0
  /\ processed = NoProcess
  /\ is_healthy = FALSE
  /\ error_count = 0
  /\ history = <<>>
  /\ health = NoCheck
  /\ last_sync = <<>>
  /\ timezone = [u \in Users |-> "Europe/Moscow"]
  /\ tz_now = 0
  /\ synced = NoSync
  /\ configured = limits["default"]
  /\ requests = [u \in Users |-> FloatZero]
  /\ answer = NoAnswer
  /\ is_running = FALSE
  /\ loops = [l \in LoopIds |-> IdleLoop]
  /\ attempts = [i \in 1..MaxNotifications |-> 0]
  /\ fsm_state = "None"
  /\ data = NoData
  /\ records = <<>>
  /\ today = 0
  /\ workplaces = {}
  /\ handled = NoMessage

\* the admitted instants of every key that lie in (t - period, t]
InWindow(adm, t) ==
  [u \in Users |-> [c \in Commands |->
     SelectSeq(adm[u][c], LAMBDA x : x > t - Policy(c)[2] /\ x <= t)]]

RECURSIVE SumLen(_, _)
SumLen(lr, keys) ==
  IF keys = {} THEN 0
  ELSE LET k == CHOOSE x \in keys : TRUE
       IN Len(lr[k[1]][k[2]].items) + SumLen(lr, keys \ {k})

\* number of instants held in the whole table
Stored(lr) == SumLen(lr, Users \X Commands)

\* time passes
Tick(d) ==
  /\ now + d <= MaxTime
  /\ now' = now + d
  /\ admitted' = InWindow(admitted, now + d)
  /\ call' = NoCall /\ done' = NoEffect
  /\ UNCHANGED <<last_requests, rejected_at, others>>

\* middleware.last_requests[user_id][command] = []  (the test suite's reset),
\* applied to a slot that holds no list
SetRequests(user_id, command) ==
  /\ last_requests[user_id][command].tag # "list"
  /\ last_requests' = StoreRequests(last_requests, user_id, command, ListOf(<<>>))
  /\ call' = NoCall /\ done' = NoEffect
  /\ UNCHANGED <<now, admitted, rejected_at, others>>

\* one event goes through RateLimiterMiddleware.__call__
LimiterCall(kind, user_id, text, h, replyFails) ==
  LET r == RateLimiterCall(last_requests, kind, user_id, text, now, h, replyFails)
      command == GetCommandName(text)
  IN \* the table holds at most MaxStored instants
     /\ r.verdict = "True" => Stored(last_requests) < MaxStored
     /\ last_requests' = r.lr
     /\ admitted' =
          IF r.verdict = "True"
          THEN [admitted EXCEPT ![user_id][command] = Append(@, now)]
          ELSE admitted
     /\ rejected_at' =
          IF r.verdict \in {"False", "True"}
          THEN [rejected_at EXCEPT ![user_id][command] =
                  IF r.verdict = "False" THEN now ELSE -1]
          ELSE rejected_at
     /\ call' = [mw |-> "limiter", kind |-> kind, user |-> user_id,
                 command |-> command, verdict |-> r.verdict,
                 handler |-> h, env |-> NoEnv,
                 fails |-> [NoFails EXCEPT !.reply = replyFails]]
     /\ done' = r.effect
     /\ UNCHANGED <<now, others>>

Next ==
  \/ \E d \in Steps : Tick(d)
  \/ \E u \in Users, c \in Commands : SetRequests(u, c)
  \/ \E u \in Users, x \in Texts :
       LET v == CheckLimit(last_requests, u, GetCommandName(x), now).verdict
       IN \E h \in HandlersRead(v = "True"), f \in FailsRead(v = "False") :
            LimiterCall("Message", u, x, h, f)
  \/ \E h \in Handlers : LimiterCall("CallbackQuery", 1, AnyText, h, FALSE)

Spec == Init /\ [][Next]_vars

\* one event goes through ErrorHandlerMiddleware.__call__
GuardCall(kind, h, env, fails) ==
  /\ call' = [mw |-> "guard", kind |-> kind, user |-> 0, command |-> "",
              verdict |-> "n/a", handler |-> h, env |-> env, fails |-> fails]
  /\ done' = Guard(kind, h, env, fails)
  /\ UNCHANGED <<last_requests, now, admitted, rejected_at, others>>

NextGuard ==
  \E k \in EventKinds, h \in GuardHandlers, e \in Envs, f \in Fails :
    GuardCall(k, h, e, f)

SpecGuard == Init /\ [][NextGuard]_vars

\* the environment and the failing reporting steps are read only by the
\* except block of the wrapper
EnvsRead(raised) ==
  IF raised THEN {e \in Envs : e.admin_id = e.bot} ELSE {NoEnv}
GuardFailsRead(raised) ==
  IF raised THEN {f \in Fails : ~f.log /\ ~f.log2} ELSE {NoFails}

\* one event goes through the chain of the two middlewares
ChainCall(kind, user_id, text, h, replyFails, env, fails) ==
  LET r == Chain(last_requests, kind, user_id, text, now, h, replyFails, env, fails)
      command == GetCommandName(text)
  IN /\ r.verdict = "True" => Stored(last_requests) < MaxStored
     /\ last_requests' = r.lr
     /\ admitted' =
          IF r.verdict = "True"
          THEN [admitted EXCEPT ![user_id][command] = Append(@, now)]
          ELSE admitted
     /\ rejected_at' =
          IF r.verdict \in {"False", "True"}
          THEN [rejected_at EXCEPT ![user_id][command] =
                  IF r.verdict = "False" THEN now ELSE -1]
          ELSE rejected_at
     /\ call' = [mw |-> "chain", kind |-> kind, user |-> user_id,
                 command |-> command, verdict |-> r.verdict,
                 handler |-> h, env |-> env, fails |-> fails]
     /\ done' = r.effect
     /\ UNCHANGED <<now, others>>

NextChain ==
  \/ \E d \in Steps : Tick(d)
  \/ \E c \in Commands : SetRequests(1, c)
  \/ \E x \in Texts :
       LET v == CheckLimit(last_requests, 1, GetCommandName(x), now).verdict
       IN \E h \in HandlersRead(v = "True"), f \in FailsRead(v = "False") :
            LET raised == \/ v = "TypeError"
                          \/ v = "False" /\ f
                          \/ v = "True" /\ h.raises
            IN \E e \in EnvsRead(raised), g \in GuardFailsRead(raised) :
                 ChainCall("Message", 1, x, h, f, e, g)
  \/ \E h \in Handlers :
       \E e \in EnvsRead(h.raises), g \in GuardFailsRead(h.raises) :
         ChainCall("CallbackQuery", 1, AnyText, h, FALSE, e, g)

SpecChain == Init /\ [][NextChain]_vars

\* ------------------------------------------------------------------ tasks
\* (mutant: when the handler returns, the oldest instant of the key is dropped)
AfterHandlerReleased(lr, user_id, command) ==
  IF lr[user_id][command].tag = "list" /\ lr[user_id][command].items # <<>>
  THEN StoreRequests(lr, user_id, command, ListOf(Tail(lr[user_id][command].items)))
  ELSE lr

\* return await handler(event, data): the table is not touched after the check
AfterHandler(lr, user_id, command) == lr

\* a task runs from the entry of __call__ to its first await: user id,
\* command, time.time() and the whole of _check_limit, which awaits nothing;
\* it is then suspended in the handler or in event.reply, or has raised
TaskCheck(t, user_id, text) ==
  LET command == GetCommandName(text)
      chk == CheckLimit(last_requests, user_id, command, now)
  IN /\ tasks[t].pc = "idle"
     /\ \A o \in TaskIds : o < t => tasks[o].pc # "idle"
     /\ chk.verdict = "True" => Stored(last_requests) < MaxStored
     /\ last_requests' = chk.lr
     /\ admitted' =
          IF chk.verdict = "True"
          THEN [admitted EXCEPT ![user_id][command] = Append(@, now)]
          ELSE admitted
     /\ rejected_at' =
          IF chk.verdict \in {"False", "True"}
          THEN [rejected_at EXCEPT ![user_id][command] =
                  IF chk.verdict = "False" THEN now ELSE -1]
          ELSE rejected_at
     /\ tasks' = [tasks EXCEPT ![t] =
                    CASE chk.verdict = "True" ->
                           [pc |-> "handler", user |-> user_id, command |-> command]
                      [] chk.verdict = "False" ->
                           [pc |-> "reply", user |-> user_id, command |-> command]
                      [] chk.verdict = "TypeError" -> IdleTask]
     /\ call' = [NoCall EXCEPT !.mw = "task", !.user = user_id,
                                !.command = command, !.verdict = chk.verdict]
     /\ done' = NoEffect
     /\ UNCHANGED <<restVars, now, backupVars, notifVars, healthVars, tzVars>>

\* the await of a suspended task completes and __call__ returns
TaskResume(t) ==
  /\ tasks[t].pc \in {"handler", "reply"}
  /\ last_requests' = AfterHandler(last_requests, tasks[t].user, tasks[t].command)
  /\ tasks' = [tasks EXCEPT ![t] = IdleTask]
  /\ call' = NoCall /\ done' = NoEffect
  /\ UNCHANGED <<restVars, now, admitted, rejected_at, backupVars, notifVars, healthVars, tzVars>>

NextTasks ==
  \/ \E d \in Steps : Tick(d)
  \/ \E c \in Commands : SetRequests(1, c)
  \/ \E t \in TaskIds, x \in Texts : TaskCheck(t, 1, x)
  \/ \E t \in TaskIds : TaskResume(t)

SpecTasks == Init /\ [][NextTasks]_vars

\* ----------------------------------------------------------- backup steps

\* a backup file is written (test_backup.write_text, create_database_backup)
WriteBackup(path) ==
  /\ path \notin files
  /\ files' = files \cup {path}
  /\ restored' = NoRestore
  /\ UNCHANGED <<restVars, middlewareVars, tasks, db_env, notifVars, healthVars, tzVars>>

\* a backup file is removed (test_backup.unlink, cleanup_old_backups)
UnlinkBackup(path) ==
  /\ path \in files
  /\ files' = files \ {path}
  /\ restored' = NoRestore
  /\ UNCHANGED <<restVars, middlewareVars, tasks, db_env, notifVars, healthVars, tzVars>>

\* the DB_* variables of the environment are set or cleared
SetDbEnv(value) ==
  /\ db_env # value
  /\ db_env' = value
  /\ restored' = NoRestore
  /\ UNCHANGED <<restVars, middlewareVars, tasks, files, notifVars, healthVars, tzVars>>

\* one call of restore_from_backup
Restore(path, decompress, returncode) ==
  LET r == RestoreFromBackup(files, db_env, path, decompress, returncode)
  IN /\ files' = r.files
     /\ restored' = Restored(TRUE, path, decompress, returncode, r.result)
     /\ UNCHANGED <<restVars, middlewareVars, tasks, db_env, notifVars, healthVars, tzVars>>

NextBackup ==
  \/ \E p \in Paths : WriteBackup(p)
  \/ \E p \in Paths : UnlinkBackup(p)
  \/ \E v \in BOOLEAN : SetDbEnv(v)
  \/ \E p \in Paths, d \in Decompressions, rc \in ReturnCodes : Restore(p, d, rc)

SpecBackup == Init /\ [][NextBackup]_vars

\* ----------------------------------------------------- notification steps
\* the ids of the notifications in the queue
QueuedIds == {notification_queue[i].id : i \in DOMAIN notification_queue}

\* add_notification(user_id, type, message, priority, scheduled_time)
AddNotification(priority, delay) ==
  /\ created < MaxNotifications
  /\ created' = created + 1
  /\ notification_queue' =
       Append(notification_queue, Notification(created + 1, priority, clock + delay))
  /\ processed' = NoProcess
  /\ UNCHANGED <<restVars, middlewareVars, tasks, backupVars, healthVars, tzVars, clock>>

\* time passes
ClockTick(d) ==
  /\ clock + d <= MaxClock
  /\ clock' = clock + d
  /\ processed' = NoProcess
  /\ UNCHANGED <<restVars, middlewareVars, tasks, backupVars, healthVars, tzVars, notification_queue, created>>

\* one call of process_notifications
ProcessStep(lookup_fails, send_fails) ==
  LET r == ProcessNotifications(notification_queue, clock, lookup_fails,
                                send_fails, <<>>)
  IN /\ notification_queue' = r.queue
     /\ processed' = [made |-> TRUE, lookup_fails |-> lookup_fails,
                      send_fails |-> send_fails, sends |-> r.sends]
     /\ UNCHANGED <<restVars, middlewareVars, tasks, backupVars, healthVars, tzVars, clock, created>>

\* the ids of the queued notifications that are due: User.get and
\* send_message are awaited for no other
DueIds ==
  {notification_queue[i].id :
     i \in {j \in DOMAIN notification_queue : Due(notification_queue[j], clock)}}

NextNotifications ==
  \/ \E p \in Priorities, d \in {0, 2} : AddNotification(p, d)
  \/ \E d \in {1, 9} : ClockTick(d)
  \/ \E lf \in SUBSET DueIds :
       \E sf \in SUBSET (DueIds \ lf) : ProcessStep(lf, sf)

SpecNotifications == Init /\ [][NextNotifications]_vars

\* ------------------------------------------------------ health check steps
\* HealthCheck.check with the given components reporting unhealthy; `monitor`
\* tells whether start_monitoring made the call, which then notifies the
\* admin if the count has reached the threshold
CheckStep(unhealthy, monitor) ==
  LET components_healthy == ComponentsHealthy(unhealthy)
      count == ErrorCountAfter(error_count, components_healthy)
  IN /\ Len(history) < MaxChecks
     /\ is_healthy' = components_healthy
     /\ error_count' = count
     /\ history' = Append(history, components_healthy)
     /\ health' = [made |-> TRUE, unhealthy |-> unhealthy,
                   notified |-> monitor /\ AlertDue(count)]
     /\ UNCHANGED <<restVars, middlewareVars, tasks, backupVars, notifVars, tzVars>>

\* await health_check.check() called directly
Check(unhealthy) == CheckStep(unhealthy, FALSE)

\* one cycle of start_monitoring
MonitorCycle(unhealthy) == CheckStep(unhealthy, TRUE)

NextHealth ==
  \/ \E u \in SUBSET Components : Check(u)
  \/ \E u \in SUBSET Components : MonitorCycle(u)

SpecHealth == Init /\ [][NextHealth]_vars

\* ----------------------------------------------------- timezone sync steps
\* time passes
HoursPass(d) ==
  /\ tz_now + d <= MaxHours
  /\ tz_now' = tz_now + d
  /\ synced' = NoSync
  /\ UNCHANGED <<restVars, middlewareVars, tasks, backupVars, notifVars, healthVars,
                 last_sync, timezone>>

\* one call of sync_user_timezone(user)
SyncStep(user, lookup, zone, save_ok) ==
  LET r == SyncUserTimezone(last_sync, timezone, user, tz_now, lookup, zone, save_ok)
  IN /\ last_sync' = r.last_sync
     /\ timezone' = r.timezone
     /\ synced' = [made |-> TRUE, user |-> user, lookup |-> lookup,
                   save_ok |-> save_ok, looked_up |-> r.looked_up,
                   result |-> r.result]
     /\ UNCHANGED <<restVars, middlewareVars, tasks, backupVars, notifVars, healthVars, tz_now>>

NextTimezone ==
  \/ \E d \in {12, 24} : HoursPass(d)
  \/ \E u \in Users, l \in Lookups, z \in Zones, ok \in BOOLEAN :
       SyncStep(u, l, z, ok)

SpecTimezone == Init /\ [][NextTimezone]_vars

\* ------------------------------------------------- configured policy steps
\* the limits and periods a deployment may configure for a command
ConfigLimits == {0, 1, 2}
ConfigPeriods == {30, 60}

\* bound: the instants one slot of the configured command may hold
MaxConfigured == 2

\* self.limits[command] = (limit, period), before the command is ever used
Configure(limit, period) ==
  /\ \A u \in Users : requests[u] = FloatZero
  /\ configured # <<limit, period>>
  /\ configured' = <<limit, period>>
  /\ answer' = NoAnswer
  /\ UNCHANGED <<middlewareVars, tasks, backupVars, notifVars, healthVars,
                 tzVars, loopVars, dialogVars, requests>>

\* middleware.last_requests[user_id][command] = [] for the configured command
ResetRequests(user_id) ==
  /\ requests[user_id].tag # "list"
  /\ requests' = [requests EXCEPT ![user_id] = ListOf(<<>>)]
  /\ answer' = NoAnswer
  /\ UNCHANGED <<middlewareVars, tasks, backupVars, notifVars, healthVars,
                 tzVars, loopVars, dialogVars,
                 configured>>

\* _check_limit(user_id, command, now) for the configured command
ConfiguredCheck(user_id) ==
  LET r == CheckRequests(requests[user_id], configured[1], configured[2], now)
  IN /\ r.verdict = "True" => Len(r.value.items) <= MaxConfigured
     /\ requests' = [requests EXCEPT ![user_id] = r.value]
     /\ answer' = [made |-> TRUE, user |-> user_id, verdict |-> r.verdict]
     /\ UNCHANGED <<middlewareVars, tasks, backupVars, notifVars, healthVars,
                    tzVars, loopVars, dialogVars,
                 configured>>

\* time.time() advances
ConfiguredTick(d) ==
  /\ now + d <= MaxTime
  /\ now' = now + d
  /\ answer' = NoAnswer
  /\ UNCHANGED <<last_requests, admitted, rejected_at, call, done, tasks,
                 backupVars, notifVars, healthVars, tzVars, loopVars,
                 dialogVars, configured, requests>>

NextPolicy ==
  \/ \E l \in ConfigLimits, p \in ConfigPeriods : Configure(l, p)
  \/ \E u \in Users : ResetRequests(u)
  \/ \E u \in Users : ConfiguredCheck(u)
  \/ \E d \in Steps : ConfiguredTick(d)

SpecPolicy == Init /\ [][NextPolicy]_vars

\* ------------------------------------------------ notification loop steps
\* the state the notification loop does not touch
outsideLoop ==
  <<middlewareVars, tasks, backupVars, healthVars, tzVars, policyVars,
    dialogVars, clock, created, processed>>

\* the top of the while loop of process_notifications (lines 91-97, 122-124):
\* with a due head the task suspends in User.get; with an empty queue or a
\* head that is not due the method returns and start() suspends in
\* asyncio.sleep
Iterate(loop, queue, t) ==
  IF queue # <<>> /\ Due(Head(queue), t)
  THEN [pc |-> "lookup", id |-> Head(queue).id,
        priority |-> Head(queue).priority, awaits |-> 1 - loop.awaits,
        raised |-> FALSE]
  ELSE [pc |-> "sleep", id |-> 0, priority |-> "none",
        awaits |-> 1 - loop.awaits, raised |-> FALSE]

\* `while self.is_running` of start(): the next round or the end of the task
NextRound(loop, running, queue, t) ==
  IF running THEN Iterate(loop, queue, t)
  ELSE [IdleLoop EXCEPT !.awaits = 1 - loop.awaits]

\* (mutant: pop() instead of pop(0))
PopLast(loop, running, queue, t) ==
  IF queue = <<>>
  THEN [queue |-> queue, loop |-> NextRound(loop, running, queue, t)]
  ELSE [queue |-> SubSeq(queue, 1, Len(queue) - 1),
        loop |-> Iterate(loop, SubSeq(queue, 1, Len(queue) - 1), t)]

\* self.notification_queue.pop(0) at line 120 or 130 and what follows: on an
\* empty queue IndexError leaves process_notifications (the pop at 130 is in
\* the except clause) and is caught by start(), which goes round at once
PopHead(loop, running, queue, t) ==
  IF queue = <<>>
  THEN [queue |-> queue, loop |-> NextRound(loop, running, queue, t)]
  ELSE [queue |-> Tail(queue), loop |-> Iterate(loop, Tail(queue), t)]

\* notification["scheduled_time"] = ... on the dict the task holds
Reschedule(queue, id, t) ==
  [i \in DOMAIN queue |->
     IF queue[i].id = id
     THEN [queue[i] EXCEPT !.scheduled_time = NextMorning(t)]
     ELSE queue[i]]

\* a task calls start()
Start(l) ==
  /\ loops[l].pc \in {"idle", "returned"}
  /\ IF is_running
     THEN /\ loops' = [loops EXCEPT ![l] = [IdleLoop EXCEPT !.pc = "returned"]]
          /\ loops'[l] # loops[l]
          /\ UNCHANGED is_running
     ELSE /\ is_running' = TRUE
          /\ loops' = [loops EXCEPT ![l] =
                         Iterate(IdleLoop, notification_queue, clock)]
  /\ UNCHANGED <<outsideLoop, notification_queue, attempts>>

\* stop()
Stop ==
  /\ is_running
  /\ is_running' = FALSE
  /\ UNCHANGED <<outsideLoop, notification_queue, loops, attempts>>

\* await User.get(...) returns or raises; then the quiet-hours test and
\* either the new scheduled_time and `continue`, or the call of send_message
LookupDone(l, lookup_fails) ==
  LET loop == loops[l]
      popped == PopHead(loop, is_running, notification_queue, clock)
      caught == [popped.loop EXCEPT !.raised = TRUE]
      moved == Reschedule(notification_queue, loop.id, clock)
  IN /\ loop.pc = "lookup"
     /\ IF lookup_fails
        THEN /\ notification_queue' = popped.queue
             /\ loops' = [loops EXCEPT ![l] = caught]
             /\ UNCHANGED attempts
        ELSE IF loop.priority # "high" /\ IsQuietHours(clock)
        THEN /\ notification_queue' = moved
             /\ loops' = [loops EXCEPT ![l] = Iterate(loop, moved, clock)]
             /\ UNCHANGED attempts
        ELSE /\ loops' = [loops EXCEPT ![l].pc = "send",
                                       ![l].awaits = 1 - loop.awaits,
                                       ![l].raised = FALSE]
             /\ attempts' = [attempts EXCEPT ![loop.id] = @ + 1]
             /\ UNCHANGED notification_queue
     /\ UNCHANGED <<outsideLoop, is_running>>

\* await self.bot.send_message(...) returns or raises: pop(0) either way
SendDone(l, send_fails) ==
  LET popped == PopHead(loops[l], is_running, notification_queue, clock)
  IN /\ loops[l].pc = "send"
     /\ notification_queue' = popped.queue
     /\ loops' = [loops EXCEPT ![l] = [popped.loop EXCEPT !.raised = send_fails]]
     /\ UNCHANGED <<outsideLoop, is_running, attempts>>

\* await asyncio.sleep(notification_interval) returns
Wake(l) ==
  /\ loops[l].pc = "sleep"
  /\ loops' = [loops EXCEPT ![l] =
                 NextRound(loops[l], is_running, notification_queue, clock)]
  /\ UNCHANGED <<outsideLoop, is_running, notification_queue, attempts>>

\* the steps of one task
LoopStep(l) ==
  \/ \E f \in BOOLEAN : LookupDone(l, f)
  \/ \E f \in BOOLEAN : SendDone(l, f)
  \/ Wake(l)

NextLoop ==
  \/ \E p \in Priorities : AddNotification(p, 0)
  \/ ClockTick(9)
  \/ \E l \in LoopIds : Start(l)
  \/ Stop
  \/ \E l \in LoopIds : LoopStep(l)

SpecLoop == Init /\ [][NextLoop]_vars

\* a single task ever calls start()
NextSingleLoop ==
  \/ \E p \in Priorities, d \in {0, 2} : AddNotification(p, d)
  \/ \E d \in {2, 9} : ClockTick(d)
  \/ Start(1)
  \/ Stop
  \/ LoopStep(1)

SpecSingleLoop == Init /\ [][NextSingleLoop]_vars

\* the awaited call of a suspended task completes
SpecSingleLoopFair == SpecSingleLoop /\ WF_vars(LoopStep(1))

\* ------------------------------------------------------ /add_record dialog
\* bounds: the last day number and the Records the dialog may create
MaxDay == 1
MaxRecords == 2

\* the texts a user sends
DialogTexts == {"/add_record", "Office", "abc", "09:00", "18:00", "/skip"}

\* the names a user may give to a workplace
WorkplaceNames == {"Office"}

\* Workplace.id of the row with the given name
WorkplaceId(name) == 1

\* datetime.strptime(text, "%H:%M").time(), in hours; -1 stands for ValueError
ParseTime(message_text) ==
  CASE message_text = "09:00" -> 9
    [] message_text = "18:00" -> 18
    [] OTHER -> -1

\* datetime.combine(today, time), in hours
Combine(day, time) == day * 24 + time

\* (mutant: an end time equal to the start time is accepted)
EndRefusedIfEarlier(end_time, start_time) == end_time < start_time

\* if end_time <= data['start_time']
EndRefused(end_time, start_time) == end_time <= start_time

\* the state outside the dialog
outsideDialog ==
  <<middlewareVars, tasks, backupVars, notifVars, healthVars, tzVars,
    policyVars, loopVars>>

\* add_record_start (registered for the command, state None)
AddRecordStart ==
  /\ fsm_state' = IF workplaces = {} THEN fsm_state ELSE "waiting_for_workplace"
  /\ UNCHANGED <<data, records>>

\* process_workplace
ProcessWorkplace(message_text) ==
  IF message_text \notin workplaces
  THEN UNCHANGED <<fsm_state, data, records>>
  ELSE /\ data' = [data EXCEPT !.workplace_id = WorkplaceId(message_text)]
       /\ fsm_state' = "waiting_for_start_time"
       /\ UNCHANGED records

\* process_start_time
ProcessStartTime(message_text) ==
  LET time == ParseTime(message_text)
  IN IF time = -1
     THEN UNCHANGED <<fsm_state, data, records>>
     ELSE /\ data' = [data EXCEPT !.start_time = Combine(today, time)]
          /\ fsm_state' = "waiting_for_end_time"
          /\ UNCHANGED records

\* process_end_time
ProcessEndTime(message_text) ==
  LET time == ParseTime(message_text)
      end_time == Combine(today, time)
  IN IF time = -1 \/ EndRefused(end_time, data.start_time)
     THEN UNCHANGED <<fsm_state, data, records>>
     ELSE /\ data' = [data EXCEPT !.end_time = end_time]
          /\ fsm_state' = "waiting_for_description"
          /\ UNCHANGED records

\* process_description: Record.create, the reply, then state.finish(), which
\* is not reached when the reply raises
ProcessDescription(message_text, reply_fails) ==
  /\ Len(records) < MaxRecords
  /\ records' = Append(records, [start_time |-> data.start_time,
                                 end_time |-> data.end_time])
  /\ IF reply_fails
     THEN UNCHANGED <<fsm_state, data>>
     ELSE fsm_state' = "None" /\ data' = NoData

\* register_handlers: the handler the dispatcher picks for a message of the
\* user, by the user's state
DialogMessage(message_text, reply_fails) ==
  /\ CASE fsm_state = "None" ->
            message_text = "/add_record" /\ AddRecordStart
       [] fsm_state = "waiting_for_workplace" -> ProcessWorkplace(message_text)
       [] fsm_state = "waiting_for_start_time" -> ProcessStartTime(message_text)
       [] fsm_state = "waiting_for_end_time" -> ProcessEndTime(message_text)
       [] fsm_state = "waiting_for_description" ->
            ProcessDescription(message_text, reply_fails)
  /\ handled' = [made |-> TRUE, text |-> message_text, reply_fails |-> reply_fails]
  /\ UNCHANGED <<outsideDialog, today, workplaces>>

\* the workplace dialog, open to a user outside a dialog, stores a Workplace
AddWorkplace(name) ==
  /\ fsm_state = "None"
  /\ name \notin workplaces
  /\ workplaces' = workplaces \cup {name}
  /\ handled' = NoMessage
  /\ UNCHANGED <<outsideDialog, fsm_state, data, records, today>>

\* midnight passes
DayPasses ==
  /\ today < MaxDay
  /\ today' = today + 1
  /\ handled' = NoMessage
  /\ UNCHANGED <<outsideDialog, fsm_state, data, records, workplaces>>

NextDialog ==
  \/ \E x \in DialogTexts :
       \E f \in IF fsm_state = "waiting_for_description" THEN BOOLEAN ELSE {FALSE} :
         DialogMessage(x, f)
  \/ \E name \in WorkplaceNames : AddWorkplace(name)
  \/ DayPasses

SpecDialog == Init /\ [][NextDialog]_vars

\* ------------------------------------------------------------------ claims
\* number of admitted requests of a key with an instant in (now - period, now]
CountInWindow(u, c) ==
  Len(SelectSeq(admitted[u][c], LAMBDA x : x > now - Policy(c)[2] /\ x <= now))

\* the step is a rate limiter call for a message
MessageCall == call'.mw = "limiter" /\ call'.kind = "Message"

\* C1: for every user, command and instant, the admitted requests of that
\* pair with an instant in the trailing interval (now - period, now] number at
\* most the command's limit.
LimitPerWindow ==
  \A u \in Users, c \in Commands : CountInWindow(u, c) <= Policy(c)[1]

\* a request was rejected while its window held exactly `limit` admitted
\* requests that did not all arrive at the same instant
LimitPerWindowWitness ==
  \E u \in Users, c \in Commands :
    /\ CountInWindow(u, c) = Policy(c)[1]
    /\ call.mw = "limiter" /\ call.user = u /\ call.command = c
    /\ call.verdict = "False"
    /\ \E i, j \in DOMAIN admitted[u][c] : admitted[u][c][i] # admitted[u][c][j]

\* the reporting steps of the latest guard call that ran all succeeded
ReportingSucceeds == ~call.fails.log /\ ~call.fails.reply /\ ~call.fails.send

\* C2: when the handler raises and the reporting steps succeed, guard returns
\* True and no exception leaves the wrapper.
FaultContained ==
  (call.mw = "guard" /\ call.handler.raises /\ ReportingSucceeds)
    => (done.outcome = "return" /\ done.value = "True")

\* a raising handler, a message event, apology and admin notification delivered
FaultContainedWitness ==
  /\ call.mw = "guard" /\ call.handler.raises /\ ReportingSucceeds
  /\ call.kind = "Message" /\ call.env.admin_id /\ call.env.bot
  /\ done.outcome = "return" /\ done.value = "True"
  /\ Len(done.user_msgs) = 1 /\ Len(done.admin_msgs) = 1

\* C3: when the handler raises, guard returns True without raising whatever
\* fails while reporting (error logging, the apology reply, the admin
\* notification).
ReportingFaultContained ==
  (call.mw = "guard" /\ call.handler.raises)
    => (done.outcome = "return" /\ done.value = "True")

\* C10: when the handler completes without raising, guard returns its result
\* unchanged and logs nothing, replies nothing, notifies nobody.
NormalPathTransparent ==
  (call.mw = "guard" /\ ~call.handler.raises)
    => /\ done.outcome = "return" /\ done.value = call.handler.value
       /\ done.handler_calls = 1 /\ done.log_calls = 0
       /\ done.user_msgs = <<>> /\ done.admin_msgs = <<>>

\* a handler returned "Success" through guard although every reporting step
\* would have failed
NormalPathTransparentWitness ==
  /\ call.mw = "guard" /\ ~call.handler.raises /\ call.handler.value = "Success"
  /\ call.fails.log /\ call.fails.reply /\ call.env.admin_id /\ call.env.bot
  /\ done.value = "Success"

\* C4: a user's request that finds fewer than `limit` admitted requests of
\* its key in the trailing `period` seconds is admitted, and one that finds
\* `limit` of them is rejected: so, from a user with nothing recorded, the
\* first N calls inside W seconds are admitted and the (N+1)-th is rejected.
QuotaEnforcement ==
  [][MessageCall =>
         LET u == call'.user
             c == call'.command
         IN /\ CountInWindow(u, c) < Policy(c)[1] => call'.verdict = "True"
            /\ CountInWindow(u, c) >= Policy(c)[1] => call'.verdict = "False"]_vars

\* C5: the next request of a user for a command made `period` seconds or more
\* after a rejected one of the same user and command is admitted; with reports = (3, 60) a request
\* that finds fewer than 3 admitted requests in the last 60 s is admitted
\* (the calls at 0, 10, 20 and at 61) and one that finds 3 is rejected (at 30).
WindowSliding ==
  [][MessageCall =>
         LET u == call'.user
             c == call'.command
             t == rejected_at[u][c]
         IN /\ (t >= 0 /\ now >= t + Policy(c)[2]) => call'.verdict = "True"
            /\ (c = "reports" /\ CountInWindow(u, c) < 3) => call'.verdict = "True"
            /\ (c = "reports" /\ CountInWindow(u, c) = 3) => call'.verdict = "False"]_vars

\* C6: _check_limit has no error outcome: it answers True or False, leaves a
\* list in the slot of its key, and for a key never assigned before (limit > 0)
\* it creates the list and admits the request.
AdmitNeverErrors ==
  [][MessageCall =>
         LET u == call'.user
             c == call'.command
         IN /\ call'.verdict \in {"True", "False"}
            /\ last_requests'[u][c].tag = "list"
            /\ (last_requests[u][c] = FloatZero /\ Policy(c)[1] > 0)
                 => /\ call'.verdict = "True"
                    /\ last_requests'[u][c] = ListOf(<<now>>)]_vars

\* C7: a call of a user for one command leaves the slot of every other
\* command of that user unchanged, and with it the verdict a request for that
\* other command would get.
CommandsIndependent ==
  [][\A u \in Users, c \in Commands :
       (MessageCall /\ u = call'.user /\ c # call'.command) =>
         /\ last_requests'[u][c] = last_requests[u][c]
         /\ CheckLimit(last_requests', u, c, now).verdict
              = CheckLimit(last_requests, u, c, now).verdict]_vars

\* the quota of reports is used up and was just refused, and the same user's
\* foo request is admitted
CommandsIndependentWitness ==
  \E u \in Users :
    /\ CountInWindow(u, "reports") = 3 /\ rejected_at[u]["reports"] = now
    /\ call.mw = "limiter" /\ call.kind = "Message" /\ call.user = u
    /\ call.command = "foo" /\ call.verdict = "True"

\* C8: a call of one user leaves every slot of every other user unchanged,
\* and with it the verdict a request of that other user would get.
UsersIndependent ==
  [][\A y \in Users, c \in Commands :
       (MessageCall /\ y # call'.user) =>
         /\ last_requests'[y][c] = last_requests[y][c]
         /\ CheckLimit(last_requests', y, c, now).verdict
              = CheckLimit(last_requests, y, c, now).verdict]_vars

\* the quota of user 1 for reports is used up and was just refused, and the
\* reports request of user 2 is admitted
UsersIndependentWitness ==
  /\ CountInWindow(1, "reports") = 3 /\ rejected_at[1]["reports"] = now
  /\ call.mw = "limiter" /\ call.kind = "Message" /\ call.user = 2
  /\ call.command = "reports" /\ call.verdict = "True"

\* an admitted message: the handler ran once and its outcome is the call's
AdmittedPassesThrough ==
  (call.mw = "limiter" /\ call.kind = "Message" /\ call.verdict = "True") =>
    /\ done.handler_calls = 1
    /\ done.outcome = (IF call.handler.raises THEN "raise" ELSE "return")
    /\ done.value = call.handler.value
    /\ done.user_msgs = <<>> /\ done.admin_msgs = <<>>

\* a rejected message: no handler, one warning naming limit and period,
\* nothing for the admin
RejectedWarnsOnce ==
  (call.mw = "limiter" /\ call.kind = "Message" /\ call.verdict = "False") =>
    /\ done.handler_calls = 0
    /\ Len(done.user_msgs) = 1
    /\ done.user_msgs[1].kind = "warning"
    /\ done.user_msgs[1].limit = Policy(call.command)[1]
    /\ done.user_msgs[1].period = Policy(call.command)[2]
    /\ done.admin_msgs = <<>> /\ done.log_calls = 0

\* C9 as stated: a rejected message gets no handler call, exactly one warning
\* reply naming limit and period is sent, nothing goes to the admin, and the
\* middleware returns True instead of raising; an admitted message has its
\* handler called once and the handler's result returned.
RejectionAnswered ==
  /\ AdmittedPassesThrough
  /\ RejectedWarnsOnce
  /\ (call.mw = "limiter" /\ call.kind = "Message" /\ call.verdict = "False") =>
       /\ done.user_msgs[1].delivered
       /\ done.outcome = "return" /\ done.value = "True"

\* C9 as amended: the same, but True is returned only if event.reply does not
\* raise; if it raises, that exception leaves the middleware.
RejectionAnsweredIfReplySent ==
  /\ AdmittedPassesThrough
  /\ RejectedWarnsOnce
  /\ (call.mw = "limiter" /\ call.kind = "Message" /\ call.verdict = "False") =>
       IF done.user_msgs[1].delivered
       THEN done.outcome = "return" /\ done.value = "True"
       ELSE done.outcome = "raise"

\* a reports request was rejected, the warning went out and True was returned
RejectionAnsweredWitness ==
  /\ call.mw = "limiter" /\ call.kind = "Message" /\ call.verdict = "False"
  /\ call.command = "reports"
  /\ done.user_msgs = <<WarningReply(3, 60, TRUE)>>
  /\ done.outcome = "return" /\ done.value = "True" /\ done.handler_calls = 0
\* the latest step was a guard call whose handler raised
GuardFault == call.mw = "guard" /\ call.handler.raises

\* C11: when the handler raises, guard attempts exactly one reply to the user
\* and exactly one notification of the administrator before it returns,
\* whatever the kind of the event (an administrator being configured and no
\* reporting step failing).
OneReplyOneNotification ==
  (GuardFault /\ call.env.admin_id /\ call.env.bot /\ call.fails = NoFails)
    => /\ Len(done.user_msgs) = 1
       /\ Len(done.admin_msgs) = 1

TraceOnlyForAdmin ==
  GuardFault =>
    /\ \A i \in DOMAIN done.user_msgs :
         /\ done.user_msgs[i].kind = "apology"
         /\ done.user_msgs[i].detail = call.handler.value
         /\ done.user_msgs[i].trace = 0
    /\ \A i \in DOMAIN done.admin_msgs :
         /\ done.admin_msgs[i].kind = "admin"
         /\ done.admin_msgs[i].trace <= 3000
         /\ done.admin_msgs[i].trace <= call.handler.trace
         /\ done.admin_msgs[i].trace \in {3000, call.handler.trace}

\* a fault with a trace of 4500 characters: the apology carries "bad input"
\* and no trace, the admin text carries 3000 characters of the trace
TraceOnlyForAdminWitness ==
  /\ GuardFault /\ call.handler.trace = 4500
  /\ Len(done.user_msgs) = 1 /\ done.user_msgs[1].detail = "bad input"
  /\ done.user_msgs[1].trace = 0 /\ done.user_msgs[1].delivered
  /\ Len(done.admin_msgs) = 1 /\ done.admin_msgs[1].trace = 3000
  /\ done.admin_msgs[1].delivered
\* the rate limiter itself raised in the latest chain call: its bookkeeping
\* (TypeError) or its warning reply
LimiterFault ==
  /\ call.mw = "chain"
  /\ \/ call.verdict = "TypeError"
     \/ call.verdict = "False" /\ ~done.user_msgs[1].delivered

UnmappedUsesDefault ==
  [][(MessageCall /\ call'.command \notin DOMAIN limits) =>
         LET u == call'.user
             c == call'.command
         IN /\ call'.verdict \in {"True", "False"}
            /\ Policy(c) = <<20, 60>>
            /\ CountInWindow(u, c) < 20 => call'.verdict = "True"
            /\ CountInWindow(u, c) >= 20 => call'.verdict = "False"
            /\ call'.verdict = "True" =>
                 last_requests'[u][c].items
                   = Append(PruneOld(last_requests[u][c].items, now, 60), now)]_vars
\* the admitted instants of a key that the table still holds for the check
\* made now
Recorded(u, c) ==
  IF last_requests[u][c].tag = "list"
  THEN PruneOld(last_requests[u][c].items, now, Policy(c)[2])
  ELSE <<>>

\* C16: with tasks suspended only at an await, every check runs from its
\* read of the slot to its append with no other task's step in between: in
\* every state, also while earlier tasks are suspended in their handlers, the
\* table holds exactly the admitted instants of each key's window, and they
\* number at most the limit.
ChecksSerialized ==
  \A u \in Users, c \in Commands :
    /\ Recorded(u, c) = admitted[u][c]
    /\ CountInWindow(u, c) <= Policy(c)[1]

\* three tasks are suspended in the handler of the same user's reports
\* command and the check of a fourth task has just been rejected
ChecksSerializedWitness ==
  \E u \in Users :
    /\ Cardinality({t \in TaskIds : tasks[t] = [pc |-> "handler", user |-> u,
                                                command |-> "reports"]}) = 3
    /\ \E t \in TaskIds : tasks[t] = [pc |-> "reply", user |-> u,
                                       command |-> "reports"]
    /\ call.mw = "task" /\ call.user = u /\ call.command = "reports"
    /\ call.verdict = "False"
    /\ CountInWindow(u, "reports") = 3
\* C17: restore_from_backup never raises: it returns False when the backup
\* file does not exist, when DB parameters are missing or when psql exits
\* non-zero, and True only when psql exits with code 0.
RestoreReportsByValue ==
  [][\A p \in Paths :
       (restored'.call_made /\ restored'.path = p) =>
         /\ restored'.result \in {"True", "False"}
         /\ p \notin files => restored'.result = "False"
         /\ ~db_env => restored'.result = "False"
         /\ restored'.returncode # 0 => restored'.result = "False"
         /\ restored'.result = "True" => restored'.returncode = 0]_vars
\* the ids for which the process_notifications call of the step called
\* bot.send_message
SentIds == {processed'.sends[i].id : i \in DOMAIN processed'.sends}

\* the ids left in the queue by the step
KeptIds == {notification_queue'[i].id : i \in DOMAIN notification_queue'}

\* send_message is called only for notifications that were due, and a
\* notification scheduled for later is not sent and stays as it is
OnlyDueSent ==
  \A j \in DOMAIN notification_queue :
    LET n == notification_queue[j]
    IN /\ n.id \in SentIds => n.scheduled_time <= clock
       /\ n.scheduled_time > clock =>
            /\ n.id \notin SentIds
            /\ \E i \in DOMAIN notification_queue' : notification_queue'[i] = n

\* C18 as stated: process_notifications calls bot.send_message only for
\* notifications whose scheduled_time is not later than now; a due
\* notification at the head of the queue is sent and removed; a notification
\* scheduled for the future is neither sent nor removed.
DueHeadSent ==
  [][processed'.made =>
       /\ OnlyDueSent
       /\ (notification_queue # <<>> /\ Head(notification_queue).scheduled_time <= clock)
            => /\ Head(notification_queue).id \in SentIds
               /\ Head(notification_queue).id \notin KeptIds]_vars

\* C18 as amended: the same, but a due head whose user lookup raises is
\* removed without a send, and a due head of priority other than high is,
\* in quiet hours, not sent and kept at the head, moved to the next morning.
DueHeadSentUnlessQuiet ==
  [][processed'.made =>
       /\ OnlyDueSent
       /\ (notification_queue # <<>> /\ Head(notification_queue).scheduled_time <= clock)
            => LET n == Head(notification_queue)
               IN IF n.id \in processed'.lookup_fails
                  THEN n.id \notin SentIds /\ n.id \notin KeptIds
                  ELSE IF n.priority # "high" /\ IsQuietHours(clock)
                  THEN /\ n.id \notin SentIds
                       /\ notification_queue' =
                            <<[n EXCEPT !.scheduled_time = NextMorning(clock)]>>
                              \o Tail(notification_queue)
                  ELSE n.id \in SentIds /\ n.id \notin KeptIds]_vars

\* the first notification, due, was sent and removed, and the second one,
\* scheduled for later, was left in the queue unsent
DueHeadSentWitness ==
  /\ processed.made /\ processed.sends = <<Sent(1, TRUE)>>
  /\ Len(notification_queue) = 1
  /\ notification_queue[1].id = 2
  /\ notification_queue[1].scheduled_time > clock
\* number of unhealthy checks at the end of the history
RECURSIVE TrailingUnhealthy(_)
TrailingUnhealthy(h) ==
  IF h = <<>> \/ h[Len(h)] THEN 0
  ELSE 1 + TrailingUnhealthy(SubSeq(h, 1, Len(h) - 1))

\* C19: after every check, is_healthy is true and error_count is 0 if all
\* components reported healthy, else is_healthy is false and error_count is
\* one more than before: error_count is the number of consecutive unhealthy
\* checks; start_monitoring calls notify_admin only when that number is at
\* least alert_threshold.
ErrorCountIsUnhealthyRun ==
  /\ error_count = TrailingUnhealthy(history)
  /\ history # <<>> =>
       /\ is_healthy = history[Len(history)]
       /\ is_healthy = (health.unhealthy = {})
       /\ is_healthy => error_count = 0
       /\ ~is_healthy =>
            error_count = 1 + TrailingUnhealthy(SubSeq(history, 1, Len(history) - 1))
  /\ health.notified => error_count >= 3

\* a healthy check, then three unhealthy ones: the monitoring cycle of the
\* third calls notify_admin
ErrorCountIsUnhealthyRunWitness ==
  /\ history = <<TRUE, FALSE, FALSE, FALSE>>
  /\ error_count = 3 /\ ~is_healthy
  /\ health.notified /\ health.unhealthy = {"database"}
\* C20: a sync_user_timezone call for a user synced less than 24 hours ago
\* looks nothing up, returns True and changes nothing; last_sync of a user
\* changes only in a call that returns True after a lookup, and then to the
\* current time; a lookup that answers None or raises makes the call return
\* False with last_sync and the user's timezone unchanged.
SyncOnlyWhenStale ==
  [][synced'.made =>
       LET u == synced'.user
       IN /\ (u \in DOMAIN last_sync /\ tz_now - last_sync[u] < 24) =>
               /\ ~synced'.looked_up /\ synced'.result = "True"
               /\ last_sync' = last_sync /\ timezone' = timezone
          /\ last_sync' # last_sync =>
               /\ synced'.looked_up /\ synced'.result = "True"
               /\ last_sync' = SetLastSync(last_sync, u, tz_now)
          /\ (synced'.looked_up /\ synced'.lookup \in {"none", "raises"}) =>
               /\ synced'.result = "False"
               /\ last_sync' = last_sync /\ timezone' = timezone]_vars

\* user 1 was synced at hour 0 and is asked again at hour 12: no lookup is
\* made although it would have raised, and True is returned
SyncOnlyWhenStaleWitness ==
  /\ synced.made /\ synced.user = 1 /\ synced.lookup = "raises"
  /\ ~synced.looked_up /\ synced.result = "True"
  /\ 1 \in DOMAIN last_sync /\ last_sync[1] = 0 /\ tz_now = 12

\* the instants of a slot that a call at current_time of a command with the
\* given period still counts
StillCounted(items, current_time, period) ==
  SelectSeq(items, LAMBDA t : current_time - t < period)

\* the delays after which the next request of the same key may arrive
LaterDelays == {0, 1, 29, 30, 59, 60, 61}

\* C21: a rejected admit call does not record its instant: afterwards the
\* slot of its key holds the pruned sequence from before the call, and a
\* request of that key at any later instant gets the verdict it would have
\* got had the rejected request never been made.
RejectionNotRecorded ==
  [][(MessageCall /\ call'.verdict = "False") =>
       LET u == call'.user
           c == call'.command
       IN /\ last_requests'[u][c] =
               ListOf(StillCounted(last_requests[u][c].items, now, Policy(c)[2]))
          /\ \A d \in LaterDelays :
               CheckRequests(last_requests'[u][c], Policy(c)[1], Policy(c)[2],
                             now + d).verdict =
                 CheckRequests(last_requests[u][c], Policy(c)[1], Policy(c)[2],
                               now + d).verdict]_vars

\* a request was rejected half a window after three admissions, and the slot
\* still holds only the three admitted instants
RejectionNotRecordedWitness ==
  /\ call.mw = "limiter" /\ call.verdict = "False" /\ now = 30
  /\ last_requests[call.user][call.command] = ListOf(<<0, 0, 0>>)

\* the slot holds exactly `limit` instants, all equal
FullAtOnce(s, limit) ==
  /\ s.tag = "list" /\ limit > 0 /\ Len(s.items) = limit
  /\ \A i \in 1..Len(s.items) : s.items[i] = s.items[1]

\* C22: an instant exactly one window old is pruned and does not count, a
\* younger one is kept: when the slot of a key holds `limit` admissions all
\* made at t0, a request of that key strictly before t0 + window is rejected
\* and leaves them stored, and a request at t0 + window is admitted and
\* leaves only its own instant.
BoundaryExclusive ==
  [][(MessageCall /\ FullAtOnce(last_requests[call'.user][call'.command],
                                Policy(call'.command)[1])) =>
       LET u == call'.user
           c == call'.command
           limit == Policy(c)[1]
           period == Policy(c)[2]
           slot == last_requests[u][c]
           t0 == slot.items[1]
       IN /\ call'.verdict = IF now - t0 < period THEN "False" ELSE "True"
          /\ \A t \in t0..(t0 + period - 1) :
               CheckRequests(slot, limit, period, t) =
                 [value |-> slot, verdict |-> "False"]
          /\ CheckRequests(slot, limit, period, t0 + period) =
               [value |-> ListOf(<<t0 + period>>), verdict |-> "True"]
          /\ last_requests'[u][c] =
               IF now - t0 < period THEN slot ELSE ListOf(<<now>>)]_vars

\* three requests were admitted at 0, one was rejected at 30, and at 60,
\* exactly one window after the admissions, the next one is admitted
BoundaryExclusiveWitness ==
  /\ now = 60
  /\ last_requests[1]["reports"] = ListOf(<<0, 0, 0>>)
  /\ rejected_at[1]["reports"] = 30
  /\ CheckLimit(last_requests, 1, "reports", now).verdict = "True"

Max(a, b) == IF a >= b THEN a ELSE b

\* C23: right after every admit call for a key at time now, admitted or
\* rejected, every instant stored for that key is younger than the window of
\* its command, and the slot holds at most max(limit, number held before).
StoredWithinWindow ==
  [][(MessageCall /\ call'.verdict \in {"True", "False"}) =>
       LET u == call'.user
           c == call'.command
           before == last_requests[u][c].items
           after == last_requests'[u][c].items
       IN /\ last_requests'[u][c].tag = "list"
          /\ \A i \in 1..Len(after) : now - after[i] < Policy(c)[2]
          /\ Len(after) <= Max(Policy(c)[1], Len(before))]_vars

\* a request was admitted at 60 into a slot that keeps the instant 30
StoredWithinWindowWitness ==
  /\ call.mw = "limiter" /\ call.kind = "Message" /\ call.verdict = "True"
  /\ now = 60
  /\ last_requests[call.user][call.command] = ListOf(<<30, 60>>)

\* C24: for a command whose policy has limit = 0 every admit call is
\* rejected, whoever the user and whatever the time, and no instant is ever
\* stored for that command.
ZeroLimitRejects ==
  configured[1] = 0 =>
    /\ answer.made => answer.verdict = "False"
    /\ \A u \in Users : requests[u].items = <<>>

\* C25: every guard invocation calls the handler exactly once and ends in one
\* of two outcomes: the handler's result returned, when the handler returned,
\* or the handled signal True returned, when it raised; the handler is not
\* called again after a fault.
TwoTerminalOutcomes ==
  call.mw = "guard" =>
    /\ done.handler_calls = 1
    /\ done.outcome = "return"
    /\ done.value = IF call.handler.raises THEN "True" ELSE call.handler.value

\* the tasks that are inside the while loop of start()
ActiveLoops == {l \in LoopIds : loops[l].pc \in {"lookup", "send", "sleep"}}

\* C26: whatever the sequence of start() and stop() calls, at most one
\* notification-processing loop is active at a time: start() returns at once
\* while a loop is running, and a loop stopped by stop() has exited before a
\* later start() lets a new loop process the queue.
OneLoopActive == Cardinality(ActiveLoops) <= 1

\* the ids of the notifications in a queue
IdsOf(queue) == {queue[i].id : i \in DOMAIN queue}

\* C27: with a single processing loop, notifications leave the queue in
\* insertion order and each after at most one send attempt: send_message is
\* called only for the head of the queue, which is the notification enqueued
\* first; a notification that left the queue never returns and none is sent
\* twice; once the lookup or the send of a notification raised, or its send
\* returned, it is no longer in the queue.
SingleLoopInOrder ==
  [][LET queue == notification_queue
         after == notification_queue'
     IN /\ \A j, k \in DOMAIN after : j < k => after[j].id < after[k].id
        /\ \A i \in 1..MaxNotifications :
             /\ attempts'[i] <= 1
             /\ attempts'[i] > attempts[i] =>
                  queue # <<>> /\ Head(queue).id = i /\ after = queue
             /\ (i \in IdsOf(queue) /\ i \notin IdsOf(after)) =>
                  Head(queue).id = i
             /\ (i <= created /\ i \notin IdsOf(queue)) => i \notin IdsOf(after)
        /\ (loops[1].pc = "send" /\ loops'[1] # loops[1]) =>
             after = Tail(queue) /\ Head(queue).id = loops[1].id
        /\ (loops[1].pc = "lookup" /\ loops'[1] # loops[1] /\ loops'[1].raised) =>
             /\ after = Tail(queue) /\ Head(queue).id = loops[1].id
             /\ UNCHANGED attempts]_vars

\* the first notification was sent and removed, the send of the second one
\* raised and it was removed too, with one send_message call each
SingleLoopInOrderWitness ==
  /\ created = 2 /\ notification_queue = <<>>
  /\ attempts = [i \in 1..MaxNotifications |-> IF i <= 2 THEN 1 ELSE 0]
  /\ loops[1].raised /\ loops[1].pc = "sleep"

\* the task is inside process_notifications, suspended in one of its awaits
Processing == loops[1].pc \in {"lookup", "send"}

\* C28: every call of process_notifications terminates, whatever the queue
\* holds and however the lookup, the quiet-hours test and the send turn out:
\* when an await of the call completes, either send_message is called next,
\* or the head is removed, or the head is left with a scheduled_time strictly
\* in the future and the call is over; and a task inside the call always
\* gets out of it.
ProcessingTerminates ==
  /\ [][(Processing /\ loops'[1] # loops[1]) =>
          \/ loops[1].pc = "lookup" /\ loops'[1].pc = "send"
          \/ notification_queue' = Tail(notification_queue)
          \/ /\ notification_queue' # <<>>
             /\ Head(notification_queue').scheduled_time > clock
             /\ ~Processing']_vars
  /\ (Processing ~> ~Processing)

\* at 23:00 the call found a notification due in quiet hours, moved it to
\* 08:00 of the next day and returned: the task sleeps
ProcessingTerminatesWitness ==
  /\ loops[1].pc = "sleep" /\ clock = 23
  /\ notification_queue # <<>>
  /\ Head(notification_queue).scheduled_time = 32

\* C30: a notification of a priority other than high that is due during
\* quiet hours (hour >= 23 or < 8) is not sent then, and at the head of the
\* queue it stays there with scheduled_time moved to 08:00 of the following
\* calendar day; a high-priority notification that is due is sent whatever
\* the hour (every user lookup succeeding).
QuietHoursRespected ==
  [][(processed'.made /\ processed'.lookup_fails = {}) =>
       \A j \in DOMAIN notification_queue :
         LET n == notification_queue[j]
             quiet == clock % 24 >= 23 \/ clock % 24 < 8
             morning == ((clock \div 24) + 1) * 24 + 8
         IN n.scheduled_time <= clock =>
              IF n.priority = "high"
              THEN n.id \in SentIds
              ELSE quiet =>
                     /\ n.id \notin SentIds
                     /\ j = 1 =>
                          /\ notification_queue' # <<>>
                          /\ Head(notification_queue') =
                               [n EXCEPT !.scheduled_time = morning]]_vars

\* the steps of the /add_record dialog, in order; "None" is the state of a
\* user outside a dialog, before it and after state.finish()
DialogOrder ==
  {<<"None", "waiting_for_workplace">>,
   <<"waiting_for_workplace", "waiting_for_start_time">>,
   <<"waiting_for_start_time", "waiting_for_end_time">>,
   <<"waiting_for_end_time", "waiting_for_description">>,
   <<"waiting_for_description", "None">>}

\* the message handled by the step is an invalid input of the state it came
\* in: an unknown workplace, a malformed time, or an end time that is not
\* later than the start time
InvalidInput ==
  LET x == handled'.text
      hour == IF x = "09:00" THEN 9 ELSE 18
  IN \/ fsm_state = "waiting_for_workplace" /\ x \notin workplaces
     \/ /\ fsm_state \in {"waiting_for_start_time", "waiting_for_end_time"}
        /\ x \notin {"09:00", "18:00"}
     \/ /\ fsm_state = "waiting_for_end_time"
        /\ x \in {"09:00", "18:00"}
        /\ today * 24 + hour <= data.start_time

\* C29: the /add_record dialog advances only along waiting_for_workplace,
\* waiting_for_start_time, waiting_for_end_time, waiting_for_description,
\* finished; an invalid input leaves the dialog state and the stored data as
\* they are; a Record is created only in the last step, and every Record
\* created has end_time strictly later than start_time.
DialogInOrder ==
  [][/\ fsm_state' # fsm_state => <<fsm_state, fsm_state'>> \in DialogOrder
     /\ (handled'.made /\ InvalidInput) =>
          UNCHANGED <<fsm_state, data, records>>
     /\ records' # records =>
          /\ fsm_state = "waiting_for_description"
          /\ Len(records') = Len(records) + 1
          /\ SubSeq(records', 1, Len(records)) = records
     /\ \A i \in DOMAIN records' :
          records'[i].end_time > records'[i].start_time]_vars

\* the dialog started at 18:00 was finished after midnight with the end time
\* 09:00, after which it is over and one Record exists
DialogInOrderWitness ==
  /\ fsm_state = "None" /\ handled.made
  /\ records = <<[start_time |-> 18, end_time |-> 33]>>

====
